---- MODULE Spec2Model ----
(***************************************************************************)
(* Model of src/polars_intro/download_data.py: the locator derivation      *)
(* get_data_urls and the concurrent fetcher download_taxi_data with its    *)
(* inner coroutine download_single_file, run by asyncio.gather on one      *)
(* shared httpx.AsyncClient (Spec), the same call made twice (SpecRerun),  *)
(* and download_weather_data and download_weather_codes (SpecSecondary).   *)
(*                                                                         *)
(* A URL is the sequence of its "/"-separated segments, a file content is  *)
(* a sequence of chunks, and one main coroutine plus one task per locator  *)
(* take steps in any order the asyncio event loop allows.                  *)
(***************************************************************************)
EXTENDS Integers, Sequences, FiniteSets, TLC

VARIABLES
    today,       \* dt.date.today(): [year, month]
    arg,         \* the urls argument: [kind, list]
    yearArg,     \* kwargs.get("year"): [given, val]
    saveDirArg,  \* the save_dir argument
    pc,          \* position of download_taxi_data
    err,         \* the exception download_taxi_data raised, "" if none
    urls,        \* the local urls after lines 66-70
    notice,      \* whether get_data_urls printed its notice
    save_dir,    \* the local save_dir after lines 72-73
    dirExists,   \* whether the target directory exists
    files,       \* the files of the target directory: name -> content
    fs0,         \* the directory as it was before the call
    client,      \* the httpx.AsyncClient: "none", "open", "closed"
    st,          \* per task: state of its retrieval
    fail,        \* per task: why it failed, "" if it did not
    fh,          \* per task: its open file object
    recv,        \* per task: chunks received so far
    status,      \* per task: status of the response, 0 before it arrives
    requests,    \* per task: GET requests issued
    ret,         \* per task: the value it returned, "" before
    doneOrder,   \* task indices in the order the tasks completed
    results,     \* the local results (line 86)
    printed,     \* the lines printed by lines 91-94
    run,         \* which call of download_taxi_data this is: 1 or 2
    wpc,         \* position of the weather download in progress, or "idle"
    werr,        \* the exception the last weather download raised, "" if none
    wargs,       \* start_date and end_date given to download_weather_data
    wurl,        \* start_date and end_date that went into api_url
    wcalls       \* weather downloads called so far

vars == <<today, arg, yearArg, saveDirArg, pc, err, urls, notice, save_dir,
          dirExists, files, fs0, client, st, fail, fh, recv, status, requests,
          ret, doneOrder, results, printed, run, wpc, werr, wargs, wurl,
          wcalls>>

(***************************** bounds **************************************)
MaxCalls == 2
MaxBatch == 2
MaxChunks == 2
MaxYear == 2010

(************************** program constants ******************************)
MinYear == 2009
DelayMonths == 3
LastMonth == 12
WeatherMonth == 3

(***************************** helpers *************************************)
Last(s) == s[Len(s)]

RECURSIVE SeqsUpTo(_, _)
\* all sequences over S of length 1..n
SeqsUpTo(S, n) ==
    IF n = 0 THEN {}
    ELSE LET shorter == SeqsUpTo(S, n - 1)
         IN  {<<x>> : x \in S} \cup shorter
                \cup {Append(q, x) : q \in shorter, x \in S}

(************************ get_data_urls (lines 17-39) **********************)
None == [given |-> FALSE, val |-> 0]

Given(v) == [given |-> TRUE, val |-> v]

\* `not year`: None and 0 are both falsy
NotYear(year) == ~year.given \/ year.val = 0

RECURSIVE ZeroPad(_, _)
\* the format specs 0>2d and >0{w}: right-aligned, filled with "0" to width w
ZeroPad(s, w) == IF Len(s) >= w THEN s ELSE ZeroPad("0" \o s, w)

FormatMonth(month) == ZeroPad(ToString(month), 2)

TaxiUrl(year, month) ==
    <<"https:", "", "d37ci6vzurychx.cloudfront.net", "trip-data",
      "yellow_tripdata_" \o ToString(year) \o "-" \o FormatMonth(month)
          \o ".parquet">>

\* the assertion of lines 22-24
YearInRange(year, current_year) == year >= MinYear /\ year <= current_year

\* lines 25-34: the year and the end month actually used
ShiftsBack(year, date) == year = date.year /\ date.month <= DelayMonths

UsedYear(year, date) == IF ShiftsBack(year, date) THEN date.year - 1 ELSE year

EndMonthOff(year, date) == date.month - DelayMonths + 1

EndMonth(year, date) ==
    IF year = date.year /\ date.month > DelayMonths
    THEN date.month - DelayMonths
    ELSE LastMonth

GetDataUrls(yearIn, date) ==
    LET year == IF NotYear(yearIn) THEN date.year ELSE yearIn.val
        current_year == date.year
    IN  IF ~YearInRange(year, current_year)
        THEN [ok |-> FALSE, urls |-> <<>>, notice |-> FALSE]
        ELSE [ok |-> TRUE,
              urls |-> [month \in 1..EndMonth(year, date) |->
                           TaxiUrl(UsedYear(year, date), month)],
              notice |-> ShiftsBack(year, date)]

(*********************** the remote endpoints ******************************)
UrlA == <<"https:", "", "host", "a", "x.parquet">>
UrlB == <<"https:", "", "host", "b", "y.parquet">>
UrlC == <<"https:", "", "host", "c", "x.parquet">>
UrlD == <<"https:", "", "host", "d", "z.parquet">>

CustomUrls == {UrlA, UrlB, UrlC, UrlD}

\* the status the endpoint answers with: UrlD does not exist remotely
RemoteStatus(u) == IF u = UrlD THEN 404 ELSE 200

NChunks(u) == IF u = UrlA THEN MaxChunks ELSE 1

\* the response body of a locator, as the chunks aiter_bytes yields
Body(u) == [k \in 1..NChunks(u) |-> [url |-> u, seq |-> k]]

StaleChunk == [url |-> <<"stale">>, seq |-> 0]

Hole == [url |-> <<"hole">>, seq |-> 0]

(************************** the filesystem *********************************)
\* Path(url).name
Name(u) == Last(u)

\* Path(save_dir) / name
JoinPath(dir, name) == dir \o "/" \o name

NoFiles == [n \in {} |-> <<>>]

AllNames == {Name(u) : u \in CustomUrls}
               \cup {Name(TaxiUrl(y, m)) : y \in (MinYear - 1)..(MaxYear + 1),
                                           m \in 1..MaxBatch}

InitialDirs ==
    { [exists |-> FALSE, files |-> NoFiles],
      [exists |-> TRUE, files |-> NoFiles],
      [exists |-> TRUE, files |-> [n \in AllNames |-> <<StaleChunk>>]] }

\* a write of data at offset pos of a file
WriteAt(content, pos, data) ==
    LET end == IF pos + Len(data) > Len(content)
               THEN pos + Len(data) ELSE Len(content)
    IN  [k \in 1..end |->
            IF k > pos /\ k <= pos + Len(data) THEN data[k - pos]
            ELSE IF k <= Len(content) THEN content[k]
            ELSE Hole]

ClosedFile == [open |-> FALSE, mode |-> "", name |-> "", pos |-> 0, buf |-> <<>>]

\* `filepath.exists` (line 79) is the bound method, not a call of it: truthy
ExistsAttr(exists) == TRUE

OpenModeAppend(exists) == "ba"

\* line 79: "ba" if not filepath.exists else "bw"
OpenMode(exists) == IF ~ExistsAttr(exists) THEN "ba" ELSE "bw"

\* open(filepath, mode): "bw" creates or truncates, "ba" creates if absent
Opened(fs, name, mode) ==
    IF mode = "bw" \/ name \notin DOMAIN fs
    THEN [n \in DOMAIN fs \cup {name} |-> IF n = name THEN <<>> ELSE fs[n]]
    ELSE fs

\* the buffered data of a file object reaching the file
Flushed(fs, h) ==
    IF h.buf = <<>> THEN fs
    ELSE [fs EXCEPT ![h.name] =
             IF h.mode = "ba" THEN @ \o h.buf ELSE WriteAt(@, h.pos, h.buf)]

AfterFlush(h) == [h EXCEPT !.pos = @ + Len(h.buf), !.buf = <<>>]

(********************** the weather downloads' data ************************)
NoDate == [given |-> FALSE, year |-> 0, month |-> 0, day |-> 0]

Date(y, m, d) == [given |-> TRUE, year |-> y, month |-> m, day |-> d]

NoDates == [start |-> NoDate, end |-> NoDate]

\* no weather download is in progress or was called
weather == <<wpc, werr, wargs, wurl, wcalls>>

WeatherIdle ==
    /\ wpc = "idle"
    /\ werr = ""
    /\ wargs = NoDates
    /\ wurl = NoDates
    /\ wcalls = 0

(**************************** initial states *******************************)
Dates == [year : MinYear..MaxYear, month : 1..LastMonth]

YearArgs == {None} \cup {Given(v) : v \in {-1, 0} \cup ((MinYear - 1)..(MaxYear + 1))}

NoUrls == { [kind |-> "none", list |-> <<>>], [kind |-> "list", list |-> <<>>] }

GivenUrls ==
    {[kind |-> "list", list |-> b] : b \in SeqsUpTo(CustomUrls, MaxBatch)}
        \cup {[kind |-> "str", list |-> <<u>>] : u \in CustomUrls}

Init ==
    /\ \/ /\ arg \in NoUrls
          /\ today \in Dates
          /\ yearArg \in YearArgs
          /\ saveDirArg = ""
       \/ /\ arg \in GivenUrls
          /\ today = [year |-> MaxYear, month |-> LastMonth]
          /\ yearArg = None
          /\ saveDirArg = "out"
    /\ fs0 \in InitialDirs
    /\ dirExists = fs0.exists
    /\ files = fs0.files
    /\ pc = "call"
    /\ err = ""
    /\ urls = <<>>
    /\ notice = FALSE
    /\ save_dir = saveDirArg
    /\ client = "none"
    /\ st = <<>>
    /\ fail = <<>>
    /\ fh = <<>>
    /\ recv = <<>>
    /\ status = <<>>
    /\ requests = <<>>
    /\ ret = <<>>
    /\ doneOrder = <<>>
    /\ results = <<>>
    /\ printed = <<>>
    /\ run = 1
    /\ WeatherIdle

(******************* download_taxi_data (lines 42-94) **********************)
inputs == <<today, arg, yearArg, saveDirArg, fs0, run, weather>>

tasks == <<st, fail, fh, recv, status, requests, ret, doneOrder>>

N == Len(urls)

Tasks == 1..Len(st)

Terminal(s) == s \in {"Complete", "Failed"}

\* `not urls`: None, the empty list and the empty string
NotUrls(a) == a.list = <<>>

\* lines 66-74: resolve the urls, default the directory, create it
Prepare ==
    /\ pc = "call"
    /\ LET got == IF NotUrls(arg) THEN GetDataUrls(yearArg, today)
                  ELSE [ok |-> TRUE, urls |-> arg.list, notice |-> FALSE]
       IN  IF ~got.ok
           THEN /\ pc' = "raised"
                /\ err' = "AssertionError"
                /\ UNCHANGED <<urls, notice, save_dir, dirExists>>
           ELSE /\ pc' = "ready"
                /\ urls' = got.urls
                /\ notice' = got.notice
                /\ save_dir' = IF saveDirArg = "" THEN "data" ELSE saveDirArg
                /\ dirExists' = TRUE
                /\ err' = ""
    /\ UNCHANGED <<inputs, files, client, tasks, results, printed>>

\* line 85: async with httpx.AsyncClient() as client
ClientEnter ==
    /\ pc = "ready"
    /\ N <= MaxBatch
    /\ client' = "open"
    /\ pc' = "entered"
    /\ UNCHANGED <<inputs, err, urls, notice, save_dir, dirExists, files,
                   tasks, results, printed>>

\* lines 86-88: gather wraps every coroutine in a task and awaits them
Gather ==
    /\ pc = "entered"
    /\ st' = [i \in 1..N |-> "NotStarted"]
    /\ fail' = [i \in 1..N |-> ""]
    /\ fh' = [i \in 1..N |-> ClosedFile]
    /\ recv' = [i \in 1..N |-> 0]
    /\ status' = [i \in 1..N |-> 0]
    /\ requests' = [i \in 1..N |-> 0]
    /\ ret' = [i \in 1..N |-> ""]
    /\ pc' = "joining"
    /\ UNCHANGED <<inputs, err, urls, notice, save_dir, dirExists, files,
                   client, doneOrder, results, printed>>

main == <<pc, err, urls, notice, save_dir, dirExists, client, results, printed>>

\* the event loop runs the first step of every task, in order, before it
\* handles any I/O completion
AllStarted == \A j \in Tasks : st[j] /= "NotStarted"

\* lines 78-80: open the destination file, then send the request
Start(i) ==
    /\ st[i] = "NotStarted"
    /\ \A j \in 1..(i - 1) : st[j] /= "NotStarted"
    /\ LET name == Name(urls[i])
           mode == OpenMode(name \in DOMAIN files)
       IN  /\ files' = Opened(files, name, mode)
           /\ fh' = [fh EXCEPT ![i] = [open |-> TRUE, mode |-> mode,
                                       name |-> name, pos |-> 0, buf |-> <<>>]]
    /\ requests' = [requests EXCEPT ![i] = @ + 1]
    /\ st' = [st EXCEPT ![i] = "Connecting"]
    /\ UNCHANGED <<inputs, main, fail, recv, status, ret, doneOrder>>

\* line 80: the response arrives; its status is not looked at
Connected(i) ==
    /\ st[i] = "Connecting"
    /\ AllStarted
    /\ status' = [status EXCEPT ![i] = RemoteStatus(urls[i])]
    /\ st' = [st EXCEPT ![i] = "Streaming"]
    /\ UNCHANGED <<inputs, main, files, fail, fh, recv, requests, ret, doneOrder>>

\* an exception leaves the `with open` block: the file is flushed and closed
Abort(i, why) ==
    /\ files' = Flushed(files, fh[i])
    /\ fh' = [fh EXCEPT ![i] = ClosedFile]
    /\ fail' = [fail EXCEPT ![i] = why]
    /\ st' = [st EXCEPT ![i] = "Failed"]
    /\ UNCHANGED <<inputs, main, recv, status, requests, ret, doneOrder>>

\* lines 80-81: the transport fails at connect or while reading a chunk
TransportFail(i) ==
    /\ st[i] \in {"Connecting", "Streaming"}
    /\ AllStarted
    /\ Abort(i, "transport")

\* lines 81-82: a chunk arrives and is written; the file object may flush
Chunk(i) ==
    /\ st[i] = "Streaming"
    /\ recv[i] < Len(Body(urls[i]))
    /\ LET h == [fh[i] EXCEPT !.buf = Append(@, Body(urls[i])[recv[i] + 1])]
       IN  \E flush \in BOOLEAN :
               IF flush
               THEN files' = Flushed(files, h) /\ fh' = [fh EXCEPT ![i] = AfterFlush(h)]
               ELSE files' = files /\ fh' = [fh EXCEPT ![i] = h]
    /\ recv' = [recv EXCEPT ![i] = @ + 1]
    /\ UNCHANGED <<inputs, main, st, fail, status, requests, ret, doneOrder>>

\* lines 81-83: the stream ends, the file is closed, the path is returned
Finish(i) ==
    /\ st[i] = "Streaming"
    /\ recv[i] = Len(Body(urls[i]))
    /\ files' = Flushed(files, fh[i])
    /\ fh' = [fh EXCEPT ![i] = ClosedFile]
    /\ ret' = [ret EXCEPT ![i] = JoinPath(save_dir, Name(urls[i]))]
    /\ st' = [st EXCEPT ![i] = "Complete"]
    /\ doneOrder' = Append(doneOrder, i)
    /\ UNCHANGED <<inputs, main, fail, recv, status, requests>>

\* asyncio.run (line 229) cancels the tasks still pending once its main
\* coroutine has raised
Cancel(i) ==
    /\ pc = "raised"
    /\ ~Terminal(st[i])
    /\ Abort(i, "cancelled")

ReturnExceptions(s) == \A i \in DOMAIN s : Terminal(s[i])

\* gather returns once every task has returned
AllComplete(s) == \A i \in DOMAIN s : s[i] = "Complete"

\* gather (return_exceptions=False) raises the first exception of a task
AnyFailed(s) == \E i \in DOMAIN s : s[i] = "Failed"

CompletionOrder(r, order) == [k \in DOMAIN order |-> r[order[k]]]

\* gather's result list: the tasks' values in the order of the awaitables
GatherResults(r, order) == r

\* line 86: the await on gather raises
GatherRaise ==
    /\ pc = "joining"
    /\ AllStarted
    /\ AnyFailed(st)
    /\ err' = "TransportError"
    /\ pc' = "aexit_err"
    /\ UNCHANGED <<inputs, urls, notice, save_dir, dirExists, files, client,
                   tasks, results, printed>>

\* line 86: the await on gather returns the results
GatherReturn ==
    /\ pc = "joining"
    /\ AllStarted
    /\ AllComplete(st)
    /\ results' = GatherResults(ret, doneOrder)
    /\ pc' = "aexit_ok"
    /\ UNCHANGED <<inputs, err, urls, notice, save_dir, dirExists, files,
                   client, tasks, printed>>

\* line 85: leaving the async with block closes the client
ClientExit ==
    /\ pc \in {"aexit_ok", "aexit_err"}
    /\ client' = "closed"
    /\ pc' = IF pc = "aexit_err" THEN "raised" ELSE "printing"
    /\ UNCHANGED <<inputs, err, urls, notice, save_dir, dirExists, files,
                   tasks, results, printed>>

ProgressLineZeroBased(i, total_files, result) ==
    LET max_digits == Len(ToString(total_files))
    IN  ZeroPad(ToString(i), max_digits) \o "/"
            \o ZeroPad(ToString(total_files), max_digits)
            \o " | Downloaded file: " \o result

\* lines 92-94, for the 0-based index i of enumerate
ProgressLine(i, total_files, result) ==
    LET max_digits == Len(ToString(total_files))
    IN  ZeroPad(ToString(i + 1), max_digits) \o "/"
            \o ZeroPad(ToString(total_files), max_digits)
            \o " | Downloaded file: " \o result

\* lines 89-94: one iteration of the loop over the results
PrintLine ==
    /\ pc = "printing"
    /\ LET i == Len(printed)
       IN  /\ printed' = Append(printed, ProgressLine(i, Len(urls), results[i + 1]))
           /\ pc' = IF i + 1 = Len(results) THEN "returned" ELSE "printing"
    /\ UNCHANGED <<inputs, err, urls, notice, save_dir, dirExists, files,
                   client, tasks, results>>

Next ==
    \/ Prepare
    \/ ClientEnter
    \/ Gather
    \/ \E i \in Tasks : Start(i)
    \/ \E i \in Tasks : Connected(i)
    \/ \E i \in Tasks : TransportFail(i)
    \/ \E i \in Tasks : Chunk(i)
    \/ \E i \in Tasks : Finish(i)
    \/ \E i \in Tasks : Cancel(i)
    \/ GatherRaise
    \/ GatherReturn
    \/ ClientExit
    \/ PrintLine

Spec == Init /\ [][Next]_vars

(************* download_taxi_data called a second time *********************)
\* the caller calls download_taxi_data again with the same arguments, once
\* the first call has returned; fs0 becomes the directory before this call
Rerun ==
    /\ pc = "returned"
    /\ run = 1
    /\ run' = 2
    /\ fs0' = [exists |-> dirExists, files |-> files]
    /\ pc' = "call"
    /\ err' = ""
    /\ urls' = <<>>
    /\ notice' = FALSE
    /\ save_dir' = saveDirArg
    /\ client' = "none"
    /\ st' = <<>>
    /\ fail' = <<>>
    /\ fh' = <<>>
    /\ recv' = <<>>
    /\ status' = <<>>
    /\ requests' = <<>>
    /\ ret' = <<>>
    /\ doneOrder' = <<>>
    /\ results' = <<>>
    /\ printed' = <<>>
    /\ UNCHANGED <<today, arg, yearArg, saveDirArg, dirExists, files, weather>>

NextRerun == Next \/ Rerun

SpecRerun == Init /\ [][NextRerun]_vars

(******* download_weather_data, download_weather_codes (lines 97-225) ******)
WeatherDays ==
    {Date(y, m, d) : y \in MinYear..MaxYear, m \in 1..LastMonth, d \in {1, 28}}

\* dates a caller may give as start_date or end_date
GivenDates == {NoDate, Date(MinYear, 6, 15)}

\* lines 169-173: the start date that goes into api_url
StartDate(start_date, date) ==
    IF start_date.given THEN start_date
    ELSE IF date.month >= WeatherMonth THEN Date(date.year, 1, 1)
    ELSE Date(date.year - 1, 1, 1)

\* lines 174-178: the end date that goes into api_url
EndDate(end_date, date) ==
    IF end_date.given THEN end_date
    ELSE IF date.month >= WeatherMonth THEN date
    ELSE Date(date.year - 1, 12, 31)

WeatherText == <<[url |-> <<"https:", "", "archive-api.open-meteo.com">>, seq |-> 1]>>

CodesText == <<[url |-> <<"https:", "", "gist.githubusercontent.com">>, seq |-> 1]>>

\* with open(filepath, mode="wt") as data_file: data_file.write(text)
WriteText(fs, name, text) ==
    [n \in DOMAIN fs \cup {name} |-> IF n = name THEN text ELSE fs[n]]

fetcher == <<arg, yearArg, saveDirArg, pc, err, urls, notice, save_dir, fs0,
             client, tasks, results, printed, run>>

InitSecondary ==
    /\ today \in WeatherDays
    /\ arg = [kind |-> "none", list |-> <<>>]
    /\ yearArg = None
    /\ saveDirArg = "data"
    /\ fs0 \in InitialDirs
    /\ dirExists = fs0.exists
    /\ files = fs0.files
    /\ pc = "call"
    /\ err = ""
    /\ urls = <<>>
    /\ notice = FALSE
    /\ save_dir = saveDirArg
    /\ client = "none"
    /\ st = <<>>
    /\ fail = <<>>
    /\ fh = <<>>
    /\ recv = <<>>
    /\ status = <<>>
    /\ requests = <<>>
    /\ ret = <<>>
    /\ doneOrder = <<>>
    /\ results = <<>>
    /\ printed = <<>>
    /\ run = 1
    /\ WeatherIdle

\* lines 168-193 of download_weather_data: the dates, api_url, mkdir
WeatherCall(start_date, end_date) ==
    /\ wpc = "idle"
    /\ wcalls < MaxCalls
    /\ wcalls' = wcalls + 1
    /\ wargs' = [start |-> start_date, end |-> end_date]
    /\ wurl' = [start |-> StartDate(start_date, today),
                end |-> EndDate(end_date, today)]
    /\ dirExists' = TRUE
    /\ werr' = ""
    /\ wpc' = "wd_get"
    /\ UNCHANGED <<today, fetcher, files>>

\* line 195 (and line 220): httpx.get returns a response or raises
Get(at, next) ==
    /\ wpc = at
    /\ \E answered \in BOOLEAN :
           IF answered
           THEN wpc' = next /\ werr' = werr
           ELSE wpc' = "idle" /\ werr' = "TransportError"
    /\ UNCHANGED <<today, fetcher, dirExists, files, wargs, wurl, wcalls>>

\* lines 197-200 (and 222-225): open the file in the directory and write it
Write(at, name, text) ==
    /\ wpc = at
    /\ IF dirExists
       THEN files' = WriteText(files, name, text) /\ werr' = werr
       ELSE files' = files /\ werr' = "FileNotFoundError"
    /\ wpc' = "idle"
    /\ UNCHANGED <<today, fetcher, dirExists, wargs, wurl, wcalls>>

WeatherGet == Get("wd_get", "wd_write")

WeatherWrite == Write("wd_write", "weather.json", WeatherText)

\* lines 217-218 of download_weather_codes: url, filepath; no mkdir
CodesCall ==
    /\ wpc = "idle"
    /\ wcalls < MaxCalls
    /\ wcalls' = wcalls + 1
    /\ werr' = ""
    /\ wpc' = "wc_get"
    /\ UNCHANGED <<today, fetcher, dirExists, files, wargs, wurl>>

CodesGet == Get("wc_get", "wc_write")

CodesWrite == Write("wc_write", "weather_codes.json", CodesText)

NextSecondary ==
    \/ \E s \in GivenDates, e \in GivenDates : WeatherCall(s, e)
    \/ WeatherGet
    \/ WeatherWrite
    \/ CodesCall
    \/ CodesGet
    \/ CodesWrite

SpecSecondary == InitSecondary /\ [][NextSecondary]_vars

(***************************************************************************)
(* The claims                                                              *)
(***************************************************************************)
Joined == pc \in {"aexit_ok", "printing", "returned"}

OutOfOrder == Len(doneOrder) >= 2 /\ doneOrder[1] > doneOrder[2]

\* the path of the file of the k-th requested locator
PathOf(k) == save_dir \o "/" \o urls[k][Len(urls[k])]

\* the progress line with 1-based position k, for the file of the k-th locator
ExpectedLine(k) ==
    LET width == Len(ToString(Len(urls)))
    IN  ZeroPad(ToString(k), width) \o "/" \o ZeroPad(ToString(Len(urls)), width)
            \o " | Downloaded file: " \o PathOf(k)

\* C1: after the join, results lists the downloaded file paths in the order
\* of the input locators: results[k] is the file of the k-th locator,
\* whatever the order in which the retrievals completed.
C1_ResultsInRequestOrder ==
    Joined => /\ Len(results) = Len(urls)
              /\ \A k \in 1..Len(urls) : results[k] = PathOf(k)

C1_Witness == pc = "aexit_ok" /\ OutOfOrder /\ Len(results) = MaxBatch

\* C2: download_taxi_data is a barrier: it has not returned to its caller,
\* normally or by raising, while a retrieval of the batch is NotStarted,
\* Connecting or Streaming.
C2_JoinBarrier ==
    pc \in {"returned", "raised"} => \A i \in Tasks : Terminal(st[i])

IsSuccess(code) == code >= 200 /\ code < 300

\* C3: a retrieval answered with a non-success status is a failed retrieval:
\* it never completes and its response body is never reported as a
\* downloaded file.
C3_NonSuccessIsFailure ==
    \A i \in Tasks :
        (status[i] /= 0 /\ ~IsSuccess(status[i])) =>
            /\ st[i] /= "Complete"
            /\ ret[i] = ""
            /\ pc \notin {"aexit_ok", "printing", "returned"}

TransportFailed == \E i \in Tasks : fail[i] = "transport"

\* C4: once a retrieval has failed with a transport failure, the call can
\* only raise, and its next step towards raising is always possible: it
\* obtains no results, prints no progress line, ends with the failure
\* raised, and no retrieval issues a second request.
C4_FailureAbortsBatch ==
    TransportFailed =>
        /\ pc \in {"joining", "aexit_err", "raised"}
        /\ pc /= "raised" => ENABLED (GatherRaise \/ ClientExit)
        /\ pc = "raised" => err = "TransportError"
        /\ results = <<>>
        /\ printed = <<>>
        /\ \A i \in Tasks : requests[i] <= 1 /\ (st[i] = "Failed" => ret[i] = "")

C4_Witness ==
    /\ pc = "raised"
    /\ \E i, j \in Tasks : fail[i] = "transport" /\ st[j] = "Complete"

DistinctNames ==
    \A j, k \in 1..Len(urls) : j /= k => Last(urls[j]) /= Last(urls[k])

BatchNames == {Last(urls[k]) : k \in 1..Len(urls)}

\* the files the call created or changed
Written ==
    {n \in DOMAIN files : n \notin DOMAIN fs0.files \/ files[n] /= fs0.files[n]}

\* C5: when the call returns normally for N locators with pairwise distinct
\* final segments, the files it created or changed in the target directory
\* are exactly N, one per locator and named by its final segment, each
\* holding exactly the response body of its locator, chunk for chunk; every
\* other file of the directory is as it was.
C5_FilesMatchBodies ==
    (pc = "returned" /\ DistinctNames) =>
        /\ dirExists
        /\ Written = BatchNames
        /\ Cardinality(Written) = Len(urls)
        /\ DOMAIN files = DOMAIN fs0.files \cup BatchNames
        /\ \A k \in 1..Len(urls) :
               /\ Len(files[Last(urls[k])]) = NChunks(urls[k])
               /\ \A c \in 1..NChunks(urls[k]) :
                      files[Last(urls[k])][c] = [url |-> urls[k], seq |-> c]

C5_Witness ==
    /\ pc = "returned"
    /\ DistinctNames
    /\ Len(urls) = MaxBatch
    /\ fs0.files /= NoFiles
    /\ \E k \in 1..Len(urls) : Len(files[Last(urls[k])]) >= 2

\* C6: the client is acquired before any retrieval starts, and when it is
\* released every retrieval of the batch is Complete or Failed.
C6_NoRetrievalOnReleasedClient ==
    /\ (\E i \in Tasks : st[i] /= "NotStarted") => client /= "none"
    /\ client = "closed" => \A i \in Tasks : st[i] \in {"Complete", "Failed"}

\* C7 as stated: the progress lines are emitted in completion order, the
\* k-th line being the line of the k-th file to complete.
C7_EmittedInCompletionOrder ==
    \A k \in 1..Len(printed) :
        printed[k] = ExpectedLine(doneOrder[k])

\* C7 as amended: a progress line is emitted only when every retrieval of
\* the batch has completed, and the lines are emitted in request order: each
\* new line is the line of the next locator of the batch.
C7_EmittedInRequestOrder ==
    [][printed' /= printed =>
          /\ \A i \in Tasks : st[i] = "Complete"
          /\ Len(printed) < Len(urls)
          /\ printed' = Append(printed, ExpectedLine(Len(printed) + 1))]_vars

C7_Witness == pc = "printing" /\ Len(printed) = 1 /\ OutOfOrder

\* C8: on a successful batch of N locators exactly N progress lines are
\* emitted, all after the join, with positions 1..N in ascending order and
\* total N, the line with position k naming the file of the k-th locator.
C8_ProgressLines ==
    /\ printed /= <<>> =>
          /\ pc \in {"printing", "returned"}
          /\ client = "closed"
          /\ \A i \in Tasks : st[i] = "Complete"
    /\ pc = "returned" =>
          /\ Len(printed) = Len(urls)
          /\ \A k \in 1..Len(urls) : printed[k] = ExpectedLine(k)

C8_Witness == pc = "returned" /\ Len(printed) = MaxBatch /\ OutOfOrder

MonthText == <<"01", "02", "03", "04", "05", "06",
               "07", "08", "09", "10", "11", "12">>

RequestedYear == IF yearArg.given THEN yearArg.val ELSE today.year

ValidYear ==
    ~yearArg.given \/ (yearArg.val >= 2009 /\ yearArg.val <= today.year)

ExpectedYear ==
    IF RequestedYear = today.year /\ today.month <= 3
    THEN today.year - 1 ELSE RequestedYear

ExpectedMonths ==
    IF RequestedYear = today.year /\ today.month > 3
    THEN today.month - 3 ELSE 12

\* C9: for a year Y in [2009, current_year], or none given (Y = current
\* year), get_data_urls returns the locators of months 1..E of year Y' in
\* ascending order, one per month, with a zero-padded 2-digit month, where
\* (Y', E) is (Y, 12) for a past year, (Y, current_month - 3) for the current
\* year after March, and (current_year - 1, 12) with a notice otherwise.
C9_LocatorsOfYear ==
    (pc /= "call" /\ NotUrls(arg) /\ ValidYear) =>
        /\ err /= "AssertionError"
        /\ Len(urls) = ExpectedMonths
        /\ \A m \in 1..Len(urls) :
               urls[m] = <<"https:", "", "d37ci6vzurychx.cloudfront.net",
                           "trip-data",
                           "yellow_tripdata_" \o ToString(ExpectedYear) \o "-"
                               \o MonthText[m] \o ".parquet">>
        /\ notice = (RequestedYear = today.year /\ today.month <= 3)

C9_Witness ==
    /\ pc = "ready"
    /\ yearArg.given
    /\ yearArg.val = today.year
    /\ today.month = 2
    /\ notice
    /\ Len(urls) = 12

\* C10: a year given by the caller outside [2009, current_year] makes
\* get_data_urls fail: no locators are returned, and download_taxi_data
\* raises before the directory is created or a request is issued.
C10_OutOfRangeYearFails ==
    (/\ pc /= "call"
     /\ NotUrls(arg)
     /\ yearArg.given
     /\ (yearArg.val < 2009 \/ yearArg.val > today.year)) =>
        /\ pc = "raised"
        /\ err = "AssertionError"
        /\ urls = <<>>
        /\ dirExists = fs0.exists
        /\ client = "none"
        /\ st = <<>>

\* C11 as stated: for any batch, after the second of two successful runs
\* with the same locators the directory holds the same file names with the
\* same contents as after the first run.
C11_SecondRunSameFiles ==
    (run = 2 /\ pc = "returned") => files = fs0.files

\* C11 as amended: for a batch whose locators have pairwise distinct final
\* segments, the second run finds the directory existing and leaves it and
\* its files alone when it creates it again, and when it has returned the
\* directory holds the same file names with the same contents as after the
\* first run, each file of the batch being one copy of its response body.
C11_SecondRunSameFilesDistinct ==
    (run = 2 /\ (pc = "call" \/ DistinctNames)) =>
        /\ dirExists
        /\ pc \in {"call", "ready", "entered"} => files = fs0.files
        /\ pc = "returned" =>
              /\ files = fs0.files
              /\ \A k \in 1..Len(urls) :
                     Len(files[Last(urls[k])]) = NChunks(urls[k])

C11_Witness ==
    /\ run = 2
    /\ pc = "returned"
    /\ DistinctNames
    /\ Len(urls) = MaxBatch
    /\ \E k \in 1..Len(urls) : Len(files[Last(urls[k])]) >= 2

\* C12: each of download_weather_data and download_weather_codes, called in
\* any order from any state of the filesystem, has created the directory
\* when it opens its destination file, and never fails because the
\* directory is missing.
C12_DirectoryCreatedBeforeOpen ==
    /\ wpc \in {"wd_write", "wc_write"} => dirExists
    /\ werr /= "FileNotFoundError"

WeatherDefaults ==
    wurl.start.given /\ ~wargs.start.given /\ ~wargs.end.given

\* C13: without start_date and end_date, download_weather_data uses the
\* first day of the current year and the current date when the current
\* month is after March, and else the first and last day of the previous
\* year, so the range lies in the year get_data_urls selects by default.
C13_DefaultDatesInTaxiYear ==
    WeatherDefaults =>
        /\ IF today.month > 3
           THEN /\ wurl.start = Date(today.year, 1, 1)
                /\ wurl.end = today
           ELSE /\ wurl.start = Date(today.year - 1, 1, 1)
                /\ wurl.end = Date(today.year - 1, 12, 31)
        /\ wurl.end.year = wurl.start.year
        /\ GetDataUrls(None, today).urls[1] = TaxiUrl(wurl.start.year, 1)

\* C14: a retrieval that fails while Connecting, before its locator was
\* opened, has neither created its destination file nor changed the content
\* a file of that name had before the call.
C14_ConnectFailureLeavesFile ==
    DistinctNames =>
        \A i \in Tasks :
            (st[i] = "Failed" /\ fail[i] = "transport" /\ status[i] = 0) =>
                LET name == Last(urls[i])
                IN  /\ name \in DOMAIN files <=> name \in DOMAIN fs0.files
                    /\ name \in DOMAIN files => files[name] = fs0.files[name]

====
